---- MODULE Spec2Model ----
(***************************************************************************)
(* Model of DemandResponseGUI_PI_Streamlit.py: one execution of the        *)
(* Streamlit script (widgets -> load profile -> pi_controller -> energy    *)
(* accounting -> chart), and the re-execution Streamlit performs when a    *)
(* widget changes.                                                         *)
(*                                                                         *)
(* Numbers.  A float64 is modelled as a pair <<n, d>>:                     *)
(*   d > 0            the finite value n/d, in lowest terms;               *)
(*   <<1, 0>>         +inf      <<-1, 0>>  -inf      <<0, 0>>  NaN.        *)
(* Finite arithmetic is exact (rounding and overflow of finite values are  *)
(* not modelled); the IEEE rules for inf and NaN are modelled, because     *)
(* float("nan") and float("inf") are values the script's parser accepts.   *)
(***************************************************************************)
EXTENDS Integers, Sequences, FiniteSets

VARIABLES
    time_scale,                    \* st.slider "Timebase (minutes)"
    kp,                            \* st.slider Kp, in hundredths (step 0.01)
    ki,                            \* st.slider Ki, in hundredths (step 0.01)
    custom_load,                   \* st.text_input, as its comma-separated tokens
    load_profile,                  \* array of floats, or None
    time,                          \* array of floats, or None
    response,                      \* pi_controller's local array
    integral,                      \* pi_controller's local accumulator
    i,                             \* pi_controller's loop index (0-based, as in the source)
    chiller_response,              \* the array pi_controller returned
    energy_deficit,
    energy_overperformance,
    energy_deficit_total,
    energy_overperformance_total,
    peak,                          \* PeakResult of the response trace
    names,                         \* the global names the running script has bound
    shown,                         \* what the run has displayed, in order
    fault,                         \* the unhandled exception that ended the run, if any
    pc,                            \* position of the script
    reruns,                        \* re-executions of the script in this session
    log                            \* history: inputs and outputs of every finished run

vars == <<time_scale, kp, ki, custom_load, load_profile, time, response, integral, i,
          chiller_response, energy_deficit, energy_overperformance,
          energy_deficit_total, energy_overperformance_total, peak, names, shown,
          fault, pc, reruns, log>>

----------------------------------------------------------------------------
(* Bounds of the model and the widget values it draws.                      *)

MaxTokens == 3                     \* longest custom load, in tokens
SampleCount == 4                   \* samples of the synthetic profile (100 in the source)
MaxReruns == 3                     \* re-executions followed in one session

TimeScales == {10, 48}             \* within the slider's 1..120 (default 30)
Kps == {0, 100, 200}               \* within the slider's 0.00..2.00, in hundredths
Kis == {0, 50, 200}
Tokens == {"-5", "0", "10", "100", "inf", "nan", "abc"}

----------------------------------------------------------------------------
(* float64 values.                                                          *)

NaN == <<0, 0>>
PosInf == <<1, 0>>
Zero == <<0, 1>>

Abs(n) == IF n < 0 THEN -n ELSE n

RECURSIVE Gcd(_, _)
Gcd(a, b) == IF b = 0 THEN a ELSE Gcd(b, a % b)

\* the finite value n/d (d > 0) in lowest terms
Rat(n, d) == LET g == Gcd(Abs(n), d) IN <<n \div g, d \div g>>

IsNaN(x) == x = NaN
IsInf(x) == x[2] = 0 /\ x[1] # 0
Sgn(x) == IF x[1] > 0 THEN 1 ELSE IF x[1] < 0 THEN -1 ELSE 0

Neg(x) == <<-x[1], x[2]>>

Add(x, y) ==
    IF IsNaN(x) \/ IsNaN(y) THEN NaN
    ELSE IF IsInf(x) THEN (IF IsInf(y) /\ y # x THEN NaN ELSE x)
    ELSE IF IsInf(y) THEN y
    ELSE LET g == Gcd(x[2], y[2])
         IN  Rat(x[1] * (y[2] \div g) + y[1] * (x[2] \div g), (x[2] \div g) * y[2])

Sub(x, y) == Add(x, Neg(y))

Mul(x, y) ==
    IF IsNaN(x) \/ IsNaN(y) THEN NaN
    ELSE IF IsInf(x) \/ IsInf(y)
         THEN (IF Sgn(x) * Sgn(y) = 0 THEN NaN ELSE <<Sgn(x) * Sgn(y), 0>>)
    ELSE LET g1 == Gcd(Abs(x[1]), y[2])
             g2 == Gcd(Abs(y[1]), x[2])
         IN  <<(x[1] \div g1) * (y[1] \div g2), (x[2] \div g2) * (y[2] \div g1)>>

\* x / k for an integer k > 0
DivInt(x, k) == Mul(x, <<1, k>>)

\* IEEE comparisons: every comparison with NaN is false
Lt(x, y) ==
    /\ ~IsNaN(x) /\ ~IsNaN(y)
    /\ IF IsInf(x) \/ IsInf(y)
       THEN (IF IsInf(x) /\ IsInf(y) THEN x[1] < y[1]
             ELSE IF IsInf(x) THEN x[1] < 0 ELSE y[1] > 0)
       ELSE x[1] * y[2] < y[1] * x[2]
Gt(x, y) == Lt(y, x)
Eq(x, y) == ~IsNaN(x) /\ ~IsNaN(y) /\ x = y
Le(x, y) == Lt(x, y) \/ Eq(x, y)
Ge(x, y) == Le(y, x)

\* faulty variant: the clamp of line 29 left out
PyMax0_NoClamp(x) == x

\* Python's builtin max(0, x): x when x > 0 is true, otherwise the first argument
PyMax0(x) == IF Gt(x, Zero) THEN x ELSE Zero

\* np.maximum(x, 0): propagates NaN
NpMaximum0(x) == IF IsNaN(x) THEN NaN ELSE IF Gt(x, Zero) THEN x ELSE Zero

\* np.sign
NpSign(x) == IF IsNaN(x) THEN NaN ELSE <<Sgn(x), 1>>

\* float(token): the value, or "ValueError"
IsNumeric(tok) == tok \in {"0", "10", "20", "30", "100", "-5", "nan", "inf"}
Float(tok) ==
    CASE tok = "0" -> Zero
      [] tok = "10" -> <<10, 1>>
      [] tok = "20" -> <<20, 1>>
      [] tok = "30" -> <<30, 1>>
      [] tok = "100" -> <<100, 1>>
      [] tok = "-5" -> <<-5, 1>>
      [] tok = "nan" -> NaN
      [] tok = "inf" -> PosInf

\* the arrays are 0-based in the source: a[k] of the source is At(a, k)
At(a, k) == a[k + 1]

\* None (of load_profile and time), told from an array by its length:
\* every array the script builds has at least one element
None == <<>>

----------------------------------------------------------------------------
(* The load profile.                                                        *)

\* faulty variant: a one-point grid placed at the end of the horizon
Linspace_FromStop(stop, num) ==
    IF num = 1 THEN <<Rat(stop, 1)>>
    ELSE [k \in 1..num |-> Rat((k - 1) * stop, num - 1)]

\* faulty variant: the grid without its end point (endpoint=False)
Linspace_NoEndpoint(stop, num) == [k \in 1..num |-> Rat((k - 1) * stop, num)]

\* np.linspace(0, stop, num)
Linspace(stop, num) ==
    IF num = 1 THEN <<Zero>>
    ELSE [k \in 1..num |-> Rat((k - 1) * stop, num - 1)]

\* floor of a finite value, as a value
Floor(x) == <<x[1] \div x[2], 1>>

\* sin(2*pi*u) for 0 <= u, by Bhaskara's rational approximation
SinTurns(u) ==
    LET w == Sub(u, Floor(u))
        h == IF Lt(w, <<1, 2>>) THEN Mul(<<2, 1>>, w) ELSE Sub(Mul(<<2, 1>>, w), <<1, 1>>)
        p == Mul(h, Sub(<<1, 1>>, h))
        den == Sub(<<5, 1>>, Mul(<<4, 1>>, p))
        b == Mul(Mul(<<16, 1>>, p), <<den[2], den[1]>>)
    IN  IF Lt(w, <<1, 2>>) THEN b ELSE Neg(b)

\* exp(-x) for x >= 0, by 1 / (1 + x + x^2/2)
ExpNeg(x) ==
    LET den == Add(Add(<<1, 1>>, x), DivInt(Mul(x, x), 2))
    IN  <<den[2], den[1]>>

\* the three pieces; the two transcendental ones are cut to whole kW
MorningRamp(t) == Mul(<<7, 1>>, t)
MiddayFluctuation(t) ==
    Floor(Add(<<100, 1>>, Mul(<<20, 1>>, SinTurns(DivInt(Sub(t, <<15, 1>>), 20)))))
EveningDecline(t) == Floor(Mul(<<100, 1>>, ExpNeg(DivInt(Sub(t, <<40, 1>>), 20))))

Piecewise(t) ==
    IF Le(t, <<15, 1>>) THEN MorningRamp(t)
    ELSE IF Le(t, <<40, 1>>) THEN MiddayFluctuation(t)
    ELSE EveningDecline(t)

typical_heating_load(ts) ==
    LET grid == Linspace(ts, SampleCount)
    IN  [time |-> grid, load_profile |-> [k \in 1..SampleCount |-> Piecewise(grid[k])]]

\* the texts the user can have typed: empty, or 1..MaxTokens comma-separated tokens
CustomLoads == UNION {[1..n -> Tokens] : n \in 0..MaxTokens}

\* lines 66-71: the parse of a non-empty text
ParseOk(text) == \A k \in 1..Len(text) : IsNumeric(text[k])
ParsedLoad(text) == [k \in 1..Len(text) |-> Float(text[k])]

----------------------------------------------------------------------------
(* pi_controller.                                                           *)

Gain(g) == Rat(g, 100)

\* one iteration of the loop, lines 26-29, at index k (0-based):
\* the new integral and the new response[k]
PiError(load, resp, k) == Sub(At(load, k), At(resp, k - 1))
PiIntegral(load, t, resp, integ, k) ==
    Add(integ, Mul(PiError(load, resp, k), Sub(At(t, k), At(t, k - 1))))
\* faulty variant: the output formed before the integral takes in the current error
PiOutput_StaleIntegral(load, t, resp, integ, k, p, q) ==
    PyMax0(Add(Mul(Rat(p, 100), PiError(load, resp, k)), Mul(Rat(q, 100), integ)))


PiOutput(load, t, resp, integ, k, p, q) ==
    PyMax0(Add(Mul(Gain(p), PiError(load, resp, k)),
               Mul(Gain(q), PiIntegral(load, t, resp, integ, k))))

\* faulty variant: the response array started as a copy of the load
ZerosLike_Copy(a) == a

\* np.zeros_like
ZerosLike(a) == [k \in 1..Len(a) |-> Zero]

\* faulty variant: the accumulator kept from the previous call
InitialIntegral_Carried(prev) == prev

\* line 23
InitialIntegral(prev) == Zero

----------------------------------------------------------------------------
(* Energy accounting.                                                       *)

Deficit(load, resp) == [k \in 1..Len(load) |-> NpMaximum0(Sub(load[k], resp[k]))]
\* faulty variant: the absolute difference instead of its positive part
Overperformance_Abs(load, resp) ==
    [k \in 1..Len(load) |->
        IF Lt(Sub(resp[k], load[k]), Zero) THEN Sub(load[k], resp[k])
        ELSE Sub(resp[k], load[k])]


Overperformance(load, resp) == [k \in 1..Len(load) |-> NpMaximum0(Sub(resp[k], load[k]))]

\* numpy.trapezoid(y, x): sum of diff(x) * (y[1:] + y[:-1]) / 2
RECURSIVE TrapezoidUpTo(_, _, _)
TrapezoidUpTo(y, x, n) ==
    IF n <= 1 THEN Zero
    ELSE Add(TrapezoidUpTo(y, x, n - 1),
             DivInt(Mul(Sub(x[n], x[n - 1]), Add(y[n], y[n - 1])), 2))
Trapezoid(y, x) == TrapezoidUpTo(y, x, Len(y))

ToKWh(e) == DivInt(e, 60)

----------------------------------------------------------------------------
(* PeakFinder.first_peak, section 4.4 of the specification: the script     *)
(* under src/ has no peak search; the facade's peak step is modelled from  *)
(* the specification.                                                      *)

Diff(a) == [k \in 1..(Len(a) - 1) |-> Sub(a[k + 1], a[k])]
SignOf(a) == [k \in 1..Len(a) |-> NpSign(a[k])]

\* faulty variant: the +1 shift left out
FirstPeakIndex_NoShift(resp) ==
    LET dd == Diff(SignOf(Diff(resp)))
        hits == {k \in 1..Len(dd) : Lt(dd[k], Zero)}
    IN  IF hits = {} THEN Len(resp) - 1
        ELSE (CHOOSE k \in hits : \A m \in hits : k <= m) - 1

\* 0-based index of the first local maximum, the last index when there is none;
\* entry k (1-based) of the second difference is entry k - 1 of the 0-based
\* array, which the +1 shift aligns with index k of the trace
FirstPeakIndex(resp) ==
    LET dd == Diff(SignOf(Diff(resp)))
        hits == {k \in 1..Len(dd) : Lt(dd[k], Zero)}
    IN  IF hits = {} THEN Len(resp) - 1
        ELSE CHOOSE k \in hits : \A m \in hits : k <= m

first_peak(resp, t) ==
    LET idx == FirstPeakIndex(resp)
    IN  [index |-> idx, time |-> At(t, idx), power_kW |-> At(resp, idx)]

NoPeak == [index |-> -1, time |-> Zero, power_kW |-> Zero]

----------------------------------------------------------------------------
(* The script.                                                              *)

Inputs == [time_scale |-> time_scale, kp |-> kp, ki |-> ki, custom_load |-> custom_load]

Outputs ==
    [load_profile |-> load_profile, time |-> time,
     chiller_response |-> chiller_response,
     energy_deficit_total |-> energy_deficit_total,
     energy_overperformance_total |-> energy_overperformance_total,
     shown |-> shown, fault |-> fault]

\* a fresh script namespace: no global bound, nothing displayed
Unbound ==
    /\ load_profile = None
    /\ time = None
    /\ chiller_response = None
    /\ energy_deficit = None
    /\ energy_overperformance = None
    /\ energy_deficit_total = Zero
    /\ energy_overperformance_total = Zero
    /\ peak = NoPeak
    /\ names = {}
    /\ shown = <<>>
    /\ fault = "none"
    /\ pc = "load"

\* any widget state: lines 59-62
Init ==
    /\ time_scale \in TimeScales
    /\ kp \in Kps
    /\ ki \in Kis
    /\ custom_load \in CustomLoads
    /\ Unbound
    /\ response = None
    /\ integral = Zero
    /\ i = 0
    /\ reruns = 0
    /\ log = <<>>

\* lines 65-73
LoadProfile ==
    /\ pc = "load"
    /\ IF custom_load # <<>>
       THEN IF ParseOk(custom_load)
            THEN /\ load_profile' = ParsedLoad(custom_load)
                 /\ time' = Linspace(time_scale, Len(custom_load))
                 /\ shown' = shown
            ELSE /\ shown' = Append(shown, "error")
                 /\ load_profile' = None
                 /\ time' = None
       ELSE /\ time' = typical_heating_load(time_scale).time
            /\ load_profile' = typical_heating_load(time_scale).load_profile
            /\ shown' = shown
    /\ names' = names \cup {"load_profile", "time"}
    /\ pc' = "guard"
    /\ UNCHANGED <<time_scale, kp, ki, custom_load, response, integral, i,
                   chiller_response, energy_deficit, energy_overperformance,
                   energy_deficit_total, energy_overperformance_total, peak, fault,
                   reruns, log>>

\* line 75, load_profile is None: the simulation block is skipped
SkipSimulation ==
    /\ pc = "guard"
    /\ load_profile = None
    /\ pc' = "chart"
    /\ UNCHANGED <<time_scale, kp, ki, custom_load, load_profile, time, response,
                   integral, i, chiller_response, energy_deficit,
                   energy_overperformance, energy_deficit_total,
                   energy_overperformance_total, peak, names, shown, fault, reruns, log>>

\* lines 75, 77, 21-23: the call of pi_controller
PiCall ==
    /\ pc = "guard"
    /\ load_profile # None
    /\ response' = ZerosLike(load_profile)
    /\ integral' = InitialIntegral(integral)
    /\ i' = 1
    /\ pc' = "loop"
    /\ UNCHANGED <<time_scale, kp, ki, custom_load, load_profile, time,
                   chiller_response, energy_deficit, energy_overperformance,
                   energy_deficit_total, energy_overperformance_total, peak, names,
                   shown, fault, reruns, log>>

\* lines 25-29: one iteration
PiStep ==
    /\ pc = "loop"
    /\ i < Len(load_profile)
    /\ integral' = PiIntegral(load_profile, time, response, integral, i)
    /\ response' = [response EXCEPT
                      ![i + 1] = PiOutput(load_profile, time, response, integral, i, kp, ki)]
    /\ i' = i + 1
    /\ UNCHANGED <<time_scale, kp, ki, custom_load, load_profile, time,
                   chiller_response, energy_deficit, energy_overperformance,
                   energy_deficit_total, energy_overperformance_total, peak, names,
                   shown, fault, pc, reruns, log>>

\* lines 30, 77: the loop is over, the array is returned and bound
PiReturn ==
    /\ pc = "loop"
    /\ i >= Len(load_profile)
    /\ chiller_response' = response
    /\ names' = names \cup {"chiller_response"}
    /\ pc' = "account"
    /\ UNCHANGED <<time_scale, kp, ki, custom_load, load_profile, time, response,
                   integral, i, energy_deficit, energy_overperformance,
                   energy_deficit_total, energy_overperformance_total, peak, shown,
                   fault, reruns, log>>

\* lines 80-89
Account ==
    /\ pc = "account"
    /\ energy_deficit' = Deficit(load_profile, chiller_response)
    /\ energy_overperformance' = Overperformance(load_profile, chiller_response)
    /\ energy_deficit_total' = ToKWh(Trapezoid(Deficit(load_profile, chiller_response), time))
    /\ energy_overperformance_total' =
           ToKWh(Trapezoid(Overperformance(load_profile, chiller_response), time))
    /\ shown' = shown \o <<"deficit", "overperformance", "formula">>
    /\ names' = names \cup {"energy_deficit", "energy_overperformance",
                            "energy_deficit_total", "energy_overperformance_total"}
    /\ pc' = "peak"
    /\ UNCHANGED <<time_scale, kp, ki, custom_load, load_profile, time, response,
                   integral, i, chiller_response, peak, fault, reruns, log>>

\* the facade's PeakFinder step, after the accounting (section 4.5)
FindPeak ==
    /\ pc = "peak"
    /\ peak' = first_peak(chiller_response, time)
    /\ pc' = "chart"
    /\ UNCHANGED <<time_scale, kp, ki, custom_load, load_profile, time, response,
                   integral, i, chiller_response, energy_deficit,
                   energy_overperformance, energy_deficit_total,
                   energy_overperformance_total, names, shown, fault, reruns, log>>

\* lines 92-153: the chart reads time, load_profile and chiller_response;
\* a name the run has not bound raises NameError, which nothing catches
ChartFault == IF "chiller_response" \in names THEN "none" ELSE "NameError"

Chart ==
    /\ pc = "chart"
    /\ fault' = ChartFault
    /\ shown' = IF ChartFault = "none" THEN Append(shown, "chart") ELSE shown
    /\ pc' = IF ChartFault = "none" THEN "done" ELSE "crashed"
    /\ log' = Append(log, [in |-> Inputs, out |-> [Outputs EXCEPT !.shown = shown',
                                                                  !.fault = fault']])
    /\ UNCHANGED <<time_scale, kp, ki, custom_load, load_profile, time, response,
                   integral, i, chiller_response, energy_deficit,
                   energy_overperformance, energy_deficit_total,
                   energy_overperformance_total, peak, names, reruns>>

Next ==
    \/ LoadProfile
    \/ SkipSimulation
    \/ PiCall
    \/ PiStep
    \/ PiReturn
    \/ Account
    \/ FindPeak
    \/ Chart

Spec == Init /\ [][Next]_vars

----------------------------------------------------------------------------
(* A session: Streamlit starts the widgets at their defaults and executes  *)
(* the script again, in a fresh namespace, whenever the user changes a     *)
(* widget or asks for a rerun.                                             *)

InitSession ==
    /\ time_scale = 30
    /\ kp = 100
    /\ ki = 50
    /\ custom_load = <<>>
    /\ Unbound
    /\ response = None
    /\ integral = Zero
    /\ i = 0
    /\ reruns = 0
    /\ log = <<>>

\* the text after one edit: a token appended, the last token deleted
TextEdits(text) ==
    (IF Len(text) < MaxTokens THEN {Append(text, tok) : tok \in Tokens} ELSE {})
        \cup (IF Len(text) > 0 THEN {SubSeq(text, 1, Len(text) - 1)} ELSE {})

Rerun ==
    /\ pc \in {"done", "crashed"}
    /\ reruns < MaxReruns
    /\ \/ UNCHANGED <<time_scale, kp, ki, custom_load>>
       \/ time_scale' \in TimeScales \ {time_scale} /\ UNCHANGED <<kp, ki, custom_load>>
       \/ kp' \in Kps \ {kp} /\ UNCHANGED <<time_scale, ki, custom_load>>
       \/ ki' \in Kis \ {ki} /\ UNCHANGED <<time_scale, kp, custom_load>>
       \/ custom_load' \in TextEdits(custom_load) /\ UNCHANGED <<time_scale, kp, ki>>
    /\ load_profile' = None
    /\ time' = None
    /\ chiller_response' = None
    /\ energy_deficit' = None
    /\ energy_overperformance' = None
    /\ energy_deficit_total' = Zero
    /\ energy_overperformance_total' = Zero
    /\ peak' = NoPeak
    /\ names' = {}
    /\ shown' = <<>>
    /\ fault' = "none"
    /\ pc' = "load"
    /\ reruns' = reruns + 1
    /\ UNCHANGED <<response, integral, i, log>>

NextSession == Next \/ Rerun

SpecSession == InitSession /\ [][NextSession]_vars

----------------------------------------------------------------------------
(* Properties.                                                              *)

Shown(tag) == \E k \in 1..Len(shown) : shown[k] = tag
InCall == pc \in {"loop", "account", "peak", "chart", "done"} /\ load_profile # None
Returned == "chiller_response" \in names
Accounted == "energy_deficit_total" \in names

\* C1: for every accepted load profile and every kp, ki, after every step of
\* the recurrence response[0] == 0 and response[i] >= 0 for every index i.
C1_ResponseNonNegative ==
    /\ InCall =>
          /\ At(response, 0) = Zero
          /\ \A k \in 1..Len(response) : Ge(response[k], Zero)
    /\ Returned =>
          /\ At(chiller_response, 0) = Zero
          /\ \A k \in 1..Len(chiller_response) : Ge(chiller_response[k], Zero)

\* a finished run in which a negative sample was clamped to 0 and another
\* sample of the response is positive
C1_Witness ==
    /\ pc = "done"
    /\ \E k \in 2..Len(load_profile) :
          Lt(load_profile[k], Zero) /\ chiller_response[k] = Zero
    /\ \E m \in 1..Len(chiller_response) : Gt(chiller_response[m], Zero)

\* C2: when custom-load parsing fails the run reports an error, never calls
\* pi_controller or the accounting, produces no partial result and finishes
\* without an unhandled fault, chart construction included.
C2_ParseFailureHandled ==
    Shown("error") =>
        /\ fault = "none"
        /\ pc # "crashed"
        /\ ~Returned
        /\ ~Accounted
        /\ pc \notin {"loop", "account", "peak"}

\* C3 as claimed: with kp = 0 and ki = 0 the response is zero everywhere, the
\* deficit total is the trapezoidal integral of the load divided by 60 and the
\* overperformance total is exactly 0.
C3_ZeroGainsAsClaimed ==
    (kp = 0 /\ ki = 0 /\ Accounted) =>
        /\ \A k \in 1..Len(chiller_response) : chiller_response[k] = Zero
        /\ energy_deficit_total = ToKWh(Trapezoid(load_profile, time))
        /\ energy_overperformance_total = Zero

PositivePart(a) == [k \in 1..Len(a) |-> IF IsNaN(a[k]) THEN NaN
                                         ELSE IF Gt(a[k], Zero) THEN a[k] ELSE Zero]
Negated(a) == [k \in 1..Len(a) |-> Neg(a[k])]

\* C3 amended: with kp = 0 and ki = 0 the response is zero at every sample,
\* after every step; the deficit total is the trapezoidal integral of
\* max(load, 0) divided by 60 and the overperformance total that of
\* max(-load, 0) divided by 60; when no sample is negative or NaN these are
\* the integral of the load divided by 60 and exactly 0.
C3_ZeroGains ==
    (kp = 0 /\ ki = 0) =>
        /\ InCall => \A k \in 1..Len(response) : response[k] = Zero
        /\ Accounted =>
              /\ \A k \in 1..Len(chiller_response) : chiller_response[k] = Zero
              /\ energy_deficit_total =
                     ToKWh(Trapezoid(PositivePart(load_profile), time))
              /\ energy_overperformance_total =
                     ToKWh(Trapezoid(PositivePart(Negated(load_profile)), time))
              /\ (\A k \in 1..Len(load_profile) : Ge(load_profile[k], Zero)) =>
                    /\ energy_deficit_total = ToKWh(Trapezoid(load_profile, time))
                    /\ energy_overperformance_total = Zero

\* zero gains, accounted, on a profile with a positive and a negative sample
C3_Witness ==
    /\ kp = 0 /\ ki = 0 /\ pc = "done"
    /\ \E k \in 1..Len(load_profile) : Gt(load_profile[k], Zero)
    /\ \E k \in 1..Len(load_profile) : Lt(load_profile[k], Zero)
    /\ Gt(energy_deficit_total, Zero)
    /\ Gt(energy_overperformance_total, Zero)

\* C4 as claimed: at every sample exactly one of deficit[i] > 0 and
\* overperformance[i] > 0 holds, never both and never neither.
C4_ExactlyOneAsClaimed ==
    Accounted =>
        \A k \in 1..Len(energy_deficit) :
            Gt(energy_deficit[k], Zero) # Gt(energy_overperformance[k], Zero)

\* C4 amended: at every sample at most one of deficit[i] > 0 and
\* overperformance[i] > 0 holds: deficit[i] > 0 exactly when
\* load[i] > response[i], overperformance[i] > 0 exactly when
\* response[i] > load[i], and neither when load[i] == response[i].
C4_AtMostOne ==
    Accounted =>
        \A k \in 1..Len(energy_deficit) :
            /\ ~(Gt(energy_deficit[k], Zero) /\ Gt(energy_overperformance[k], Zero))
            /\ Gt(energy_deficit[k], Zero) <=> Gt(load_profile[k], chiller_response[k])
            /\ Gt(energy_overperformance[k], Zero)
                   <=> Gt(chiller_response[k], load_profile[k])
            /\ Eq(load_profile[k], chiller_response[k]) =>
                   /\ ~Gt(energy_deficit[k], Zero)
                   /\ ~Gt(energy_overperformance[k], Zero)

\* one run with a sample of each kind: deficit, overperformance, neither
C4_Witness ==
    /\ Accounted
    /\ \E k \in 1..Len(energy_deficit) : Gt(energy_deficit[k], Zero)
    /\ \E k \in 1..Len(energy_deficit) : Gt(energy_overperformance[k], Zero)
    /\ \E k \in 1..Len(energy_deficit) :
          /\ Eq(load_profile[k], chiller_response[k])
          /\ energy_deficit[k] = Zero
          /\ energy_overperformance[k] = Zero

\* C5: in every run deficit[i] >= 0 and overperformance[i] >= 0 at every
\* sample, at most one of the two is nonzero at each sample, and both
\* reported totals are >= 0.
C5_NonNegativeEnergies ==
    Accounted =>
        /\ \A k \in 1..Len(energy_deficit) :
              /\ Ge(energy_deficit[k], Zero)
              /\ Ge(energy_overperformance[k], Zero)
              /\ ~(~Eq(energy_deficit[k], Zero) /\ ~Eq(energy_overperformance[k], Zero))
        /\ Ge(energy_deficit_total, Zero)
        /\ Ge(energy_overperformance_total, Zero)

C7_CustomGrid ==
    /\ (custom_load # <<>> /\ ParseOk(custom_load) /\ pc # "load") =>
          LET n == Len(custom_load) IN
          /\ Len(load_profile) = n
          /\ \A k \in 0..(n - 1) : At(load_profile, k) = Float(At(custom_load, k))
          /\ Len(time) = n
          /\ At(time, 0) = Zero
          /\ \A k \in 0..(n - 1) :
                Mul(At(time, k), <<n - 1, 1>>) = <<k * time_scale, 1>>
          /\ n >= 2 =>
                /\ At(time, n - 1) = <<time_scale, 1>>
                /\ \A k \in 1..(n - 1) : Lt(At(time, k - 1), At(time, k))
    /\ load_profile # None => Len(time) = Len(load_profile)
    /\ InCall => Len(response) = Len(load_profile)
    /\ Returned => Len(chiller_response) = Len(load_profile)
    /\ ParsedLoad(<<"10", "20", "30">>) = <<<<10, 1>>, <<20, 1>>, <<30, 1>>>>
    /\ Linspace(10, Len(<<"10", "20", "30">>)) = <<Zero, <<5, 1>>, <<10, 1>>>>

\* a finished run on three tokens over 10 minutes: the grid is [0, 5, 10]
C7_Witness ==
    /\ pc = "done"
    /\ Len(custom_load) = 3
    /\ time_scale = 10
    /\ time = <<Zero, <<5, 1>>, <<10, 1>>>>
    /\ Len(chiller_response) = 3

\* the indices of C8: 1 <= k <= N-2 with sign(r[k+1]-r[k]) < sign(r[k]-r[k-1])
SignDrops(r) ==
    {k \in 1..(Len(r) - 2) :
        Lt(NpSign(Sub(At(r, k + 1), At(r, k))), NpSign(Sub(At(r, k), At(r, k - 1))))}
ClaimedPeakIndex(r) ==
    IF SignDrops(r) = {} THEN Len(r) - 1
    ELSE CHOOSE k \in SignDrops(r) : \A m \in SignDrops(r) : k <= m

\* C8: every successful run yields a peak result whose index is the first i
\* (1 <= i <= N-2) with sign(response[i+1] - response[i]) less than
\* sign(response[i] - response[i-1]), and N-1 when there is none (a strictly
\* increasing response gives N-1, [0, 5, 3] gives 1); the peak is computed
\* after the energy accounting.
C8_FirstPeak ==
    /\ peak # NoPeak =>
          /\ Accounted
          /\ peak.index = ClaimedPeakIndex(chiller_response)
          /\ peak.time = At(time, peak.index)
          /\ peak.power_kW = At(chiller_response, peak.index)
    /\ pc = "done" => peak # NoPeak
    /\ ~Accounted => peak = NoPeak
    /\ FirstPeakIndex(<<Zero, <<5, 1>>, <<3, 1>>>>) = 1
    /\ FirstPeakIndex(<<Zero, <<1, 1>>, <<2, 1>>, <<3, 1>>>>) = 3

\* a finished run whose response has an interior peak
C8_Witness ==
    /\ pc = "done"
    /\ Len(chiller_response) >= 3
    /\ peak.index >= 1
    /\ peak.index <= Len(chiller_response) - 2
    /\ Gt(peak.power_kW, Zero)

\* C9: two runs with identical (time_scale, kp, ki, custom_load) produce
\* identical load profile, response trace, energy totals and display,
\* whatever runs happened before or between them.
C9_RunsIndependent ==
    \A a \in 1..Len(log) : \A b \in 1..Len(log) :
        log[a].in = log[b].in => log[a].out = log[b].out

\* three finished runs: the first and the third on the same inputs, with a
\* nonzero integral left by each, the second on other inputs and with
\* another response
C9_Witness ==
    /\ Len(log) >= 3
    /\ log[1].in = log[3].in
    /\ log[2].in # log[1].in
    /\ log[2].out.chiller_response # log[1].out.chiller_response
    /\ integral # Zero
    /\ pc = "done"

\* e_j and I_k of C10, read off the response array
ClaimedError(k) == Sub(At(load_profile, k), At(response, k - 1))
RECURSIVE ClaimedIntegral(_)
ClaimedIntegral(k) ==
    IF k = 0 THEN Zero
    ELSE Add(ClaimedIntegral(k - 1),
             Mul(ClaimedError(k), Sub(At(time, k), At(time, k - 1))))
Max0(x) == IF Gt(x, Zero) THEN x ELSE Zero

\* C10: for every index i >= 1, response[i] = max(0, kp * e_i + ki * I_i)
\* with e_i = load[i] - response[i-1] and I_i the sum over j = 1..i of
\* e_j * (time[j] - time[j-1]); the integral takes in the current error
\* before the output is formed and is never reset or clamped; load = [0, 100]
\* with kp = 1, ki = 0 gives response = [0, 100].
C10_Recurrence ==
    /\ InCall =>
          /\ \A k \in 1..(i - 1) :
                At(response, k) =
                    Max0(Add(Mul(Rat(kp, 100), ClaimedError(k)),
                             Mul(Rat(ki, 100), ClaimedIntegral(k))))
          /\ integral = ClaimedIntegral(i - 1)
    /\ (pc = "done" /\ custom_load = <<"0", "100">> /\ kp = 100 /\ ki = 0) =>
          chiller_response = <<Zero, <<100, 1>>>>

\* a finished run with ki > 0 in which a step after the first was clamped to
\* 0 while the integral kept its value, and a later step is positive
C10_Witness ==
    /\ pc = "done"
    /\ ki > 0
    /\ Len(response) >= 3
    /\ \E k \in 1..(Len(response) - 2) :
          /\ At(response, k) = Zero
          /\ ClaimedIntegral(k) # Zero
          /\ Gt(At(response, k + 1), Zero)

====
